---- MODULE Spec2Model ----
(***************************************************************************)
(* The live voice session engine of src/App.tsx as a state machine: the    *)
(* React state of the App component, its refs, the startSession coroutine, *)
(* the channel callbacks (onopen, onmessage, onerror, onclose), the        *)
(* playback scheduling of inbound audio and the tool-call dispatch loop.   *)
(***************************************************************************)
EXTENDS Integers, Sequences, FiniteSets, TLC

\* ------------------------------------------------------------- bounds
\* startSession invocations that reach the body of the function
MaxStarts == 2
\* inputs of the environment: clicks, device and channel failures, inbound
\* serverContent messages, tool calls, captured frames and ticks of the clock
MaxEvents == 4
\* longest decoded audio buffer, in clock units
MaxDur == 2
\* longest tool-call batch
MaxBatch == 2

\* ------------------------------------------------------------- values
\* a JavaScript undefined: a field that is absent from an object
Undefined == "undefined"
\* a ref that holds null (resources are numbered from 1)
Null == 0

WELCOME == "WELCOME"
DISCOVERY == "DISCOVERY"
PLANNING == "PLANNING"
BOOKING == "BOOKING"
AppStates == {WELCOME, DISCOVERY, PLANNING, BOOKING}

SessionIds == 1..MaxStarts

\* TRAVEL_EXPERIENCE_FUNCTION.parameters.required
ShowRequired ==
    {"destination", "narrative", "emotionalHook", "foodCulture",
     "activities", "mood", "priceLevel"}

\* TRAVEL_PLAN_FUNCTION.parameters.required
PlanRequired ==
    {"destination", "days", "stayArea", "costEstimate", "comfortTips"}

\* the three suitability flags read by the showExperience branch
SuitabilityFlags == {"seniorFriendly", "familyFriendly", "youthOriented"}

ShowFields == ShowRequired \cup SuitabilityFlags \cup {"visualPrompt"}

PlanFields == PlanRequired \cup {"seniorGuidance"}

\* fc.args of a showExperience call with every required field and no flag
ShowArgsFor(dest) ==
    [f \in ShowFields |->
        IF f = "destination" THEN dest
        ELSE IF f \in ShowRequired THEN "text"
        ELSE Undefined]

\* fc.args of a generatePlan call with every required field
PlanArgsFull ==
    [f \in PlanFields |->
        IF f = "destination" THEN "Ooty"
        ELSE IF f \in PlanRequired THEN "text"
        ELSE Undefined]

\* obj without field f
Omit(obj, f) == [obj EXCEPT ![f] = Undefined]

\* the argument objects the remote agent sends with showExperience
ShowArgsSet ==
    { ShowArgsFor("Ooty"),
      ShowArgsFor("Munnar"),
      [ShowArgsFor("Munnar") EXCEPT !["seniorFriendly"] = "true",
                                    !["familyFriendly"] = "false"],
      Omit(ShowArgsFor("Ooty"), "mood") }

\* the argument objects the remote agent sends with generatePlan
PlanArgsSet ==
    { PlanArgsFull, Omit(PlanArgsFull, "stayArea") }

\* FunctionCall.args is optional: a call may carry no argument object at all
NoArgs == [absent |-> TRUE]

\* the tool names the agent may use: the two registered ones and one that is not
ToolNames == {"showExperience", "generatePlan", "bookTrip"}

ArgsOf(name) ==
    IF name = "showExperience" THEN ShowArgsSet \cup {NoArgs}
    ELSE IF name = "generatePlan" THEN PlanArgsSet \cup {NoArgs}
    ELSE {NoArgs}

\* every required field of a tool is present in args
HasAll(args, required) ==
    /\ args # NoArgs
    /\ \A f \in required : args[f] # Undefined

\* ------------------------------------------------------------- state
VARIABLES
    \* React state of App (useState)
    appState, experiences, currentExpIndex, currentPlan,
    isSessionActive, isListening, transcription,
    \* what the last render committed: the values closures and the DOM see
    rendered,
    \* refs (useRef)
    audioContextRef, outputAudioContextRef, scriptProcessorRef,
    mediaStreamRef, nextStartTimeRef, sessionPromiseRef, sourcesRef,
    \* the environment
    clock,        \* wall clock
    sessions,     \* per startSession invocation: position, channel, promise
    resources,    \* audio contexts, media streams, script processors
    pending,      \* onmessage frames suspended at await decodeAudioData
    \* what was observed
    entries,      \* every AudioBufferSourceNode started, in arrival order
    calls,        \* every tool call delivered, in arrival order
    sent,         \* every send on a channel, in order
    alerts,       \* window.alert calls
    events,       \* inputs of the environment consumed so far
    frames,       \* audio blobs handed to a channel so far
    last          \* the fatal failure or interruption handled last, if it ran last

vars ==
    << appState, experiences, currentExpIndex, currentPlan,
       isSessionActive, isListening, transcription, rendered,
       audioContextRef, outputAudioContextRef, scriptProcessorRef,
       mediaStreamRef, nextStartTimeRef, sessionPromiseRef, sourcesRef,
       clock, sessions, resources, pending,
       entries, calls, sent, alerts, events, frames, last >>

reactVars ==
    << appState, experiences, currentExpIndex, currentPlan,
       isSessionActive, isListening, transcription >>

refVars ==
    << audioContextRef, outputAudioContextRef, scriptProcessorRef,
       mediaStreamRef, nextStartTimeRef, sessionPromiseRef, sourcesRef >>

\* useState<TravelPlan | null>(null)
NullPlan == [v |-> "null"]

ResourceKinds == {"inputCtx", "outputCtx", "stream", "processor"}

\* what the current render shows and its closures captured
Snapshot(state, active, plan) ==
    [appState |-> state, isSessionActive |-> active,
     planTruthy |-> (plan.v = "object")]

\* any handler that is neither a fatal failure nor an interruption
Other == [op |-> "other", t |-> 0, session |-> 0]

\* the interrupted branch ran, with the output clock reading t
Interrupted(t) == [op |-> "interrupted", t |-> t, session |-> 0]

\* the handler of the suspended message f ended at a rejected decodeAudioData
Dropped(f) ==
    [op |-> "dropped", t |-> f.cursorBefore, session |-> f.session,
     interrupted |-> f.interrupted, sources |-> f.sourcesBefore]

\* a fatal failure of invocation i: "catch", "onerror" or "onclose"
Fatal(op, i) == [op |-> op, t |-> 0, session |-> i]

Init ==
    /\ appState = WELCOME
    /\ experiences = << >>
    /\ currentExpIndex = 0
    /\ currentPlan = NullPlan
    /\ isSessionActive = FALSE
    /\ isListening = FALSE
    /\ transcription = << >>
    /\ rendered = Snapshot(WELCOME, FALSE, NullPlan)
    /\ audioContextRef = Null
    /\ outputAudioContextRef = Null
    /\ scriptProcessorRef = Null
    /\ mediaStreamRef = Null
    /\ nextStartTimeRef = 0
    /\ sessionPromiseRef = Null
    /\ sourcesRef = {}
    /\ clock = 0
    /\ sessions = [i \in SessionIds |->
                     [pc |-> "none", promise |-> "none", thens |-> << >>,
                      born |-> 0, procCtx |-> Null]]
    /\ resources = [k \in ResourceKinds |-> [i \in SessionIds |-> "none"]]
    /\ pending = << >>
    /\ entries = << >>
    /\ calls = << >>
    /\ sent = << >>
    /\ alerts = 0
    /\ events = 0
    /\ frames = 0
    /\ last = Other

\* ------------------------------------------------------------- helpers
Max(a, b) == IF a >= b THEN a ELSE b

\* the environment supplies n more inputs
Spend(n) ==
    /\ events + n <= MaxEvents
    /\ events' = events + n

\* a scheduling in which a suspended onmessage waits like any other callback
AnyCallbackRunsNext == TRUE

\* The continuation of `await decodeAudioData(...)` is a microtask of the task
\* that delivered the message: no other callback runs while one is queued.
MicrotasksDrained == pending = << >>

\* React has rendered the current state. A render is scheduled with the state
\* update itself: a click may still reach the handlers of the previous render,
\* a device or channel callback runs after the render.
Committed ==
    /\ MicrotasksDrained
    /\ rendered = Snapshot(appState, isSessionActive, currentPlan)

\* outCtx.currentTime of the output context created by invocation ctx
CurrentTime(ctx) == clock - sessions[ctx].born

\* close(), stop() or disconnect() on a resource
Release(status) == IF status = "held" THEN "released" ELSE "released twice"

\* promise.then(send payload) on sessionPromiseRef.current: the callback runs at
\* once (in order) on a resolved promise and waits in line on a pending one;
\* queued tells that the payload had to wait
ThenSend(ss, log, payload) ==
    IF sessionPromiseRef = Null THEN << ss, log >>
    ELSE IF ss[sessionPromiseRef].promise = "resolved"
    THEN << ss, Append(log, [payload EXCEPT !.ch = sessionPromiseRef]) >>
    ELSE << [ss EXCEPT ![sessionPromiseRef].thens =
                Append(@, [payload EXCEPT !.ch = sessionPromiseRef,
                                          !.queued = TRUE])], log >>

\* the sequence s, last element first
Reversed(s) == [k \in 1..Len(s) |-> s[Len(s) + 1 - k]]

\* callbacks that run newest first when the promise resolves
FlushedNewestFirst(log, thens) == log \o Reversed(thens)

\* the promise resolves: its .then callbacks run in the order of registration
Flushed(log, thens) == log \o thens

\* session.sendRealtimeInput({ media }): n numbers the blobs in the order in
\* which they were handed to .then
AudioFrame(n, what) ==
    [ch |-> Null, kind |-> "audio", id |-> n, name |-> what, result |-> "",
     queued |-> FALSE]

ToolResponse(id, name, result) ==
    [ch |-> Null, kind |-> "toolResponse", id |-> id, name |-> name,
     result |-> result, queued |-> FALSE]

\* source.stop() on every member of srcs, at the time of its context;
\* stoppedAfter keeps how many chunks had been scheduled by then
StopAll(ents, srcs) ==
    [e \in DOMAIN ents |->
        IF e \in srcs /\ ents[e].stoppedAt < 0
        THEN [ents[e] EXCEPT !.stoppedAt = CurrentTime(ents[e].ctx),
                             !.stoppedAfter = Len(ents)]
        ELSE ents[e]]

\* ------------------------------------------------------------- React
\* React re-renders: the DOM and the handlers' closures see the current state
Render ==
    /\ MicrotasksDrained
    /\ rendered # Snapshot(appState, isSessionActive, currentPlan)
    /\ rendered' = Snapshot(appState, isSessionActive, currentPlan)
    /\ last' = Other
    /\ UNCHANGED << reactVars, refVars, clock, sessions, resources, pending,
                    entries, calls, sent, alerts, events, frames >>

\* PlanningView onBack={() => setAppState(AppState.DISCOVERY)}
onBack ==
    /\ MicrotasksDrained
    /\ rendered.appState = PLANNING
    /\ rendered.planTruthy
    /\ Spend(1)
    /\ appState' = DISCOVERY
    /\ last' = Other
    /\ UNCHANGED << experiences, currentExpIndex, currentPlan, isSessionActive,
                    isListening, transcription, rendered, refVars, clock,
                    sessions, resources, pending, entries, calls, sent,
                    alerts, frames >>

\* ------------------------------------------------------------- cleanupAudio
\* resources after cleanupAudio released what the four refs point to
CleanedResources ==
    [k \in ResourceKinds |-> [i \in SessionIds |->
        IF \/ k = "stream" /\ i = mediaStreamRef
           \/ k = "processor" /\ i = scriptProcessorRef
           \/ k = "inputCtx" /\ i = audioContextRef
           \/ k = "outputCtx" /\ i = outputAudioContextRef
        THEN Release(resources[k][i])
        ELSE resources[k][i]]]

cleanupAudio ==
    /\ resources' = CleanedResources
    /\ mediaStreamRef' = Null
    /\ scriptProcessorRef' = Null
    /\ audioContextRef' = Null
    /\ outputAudioContextRef' = Null
    /\ entries' = StopAll(entries, sourcesRef)
    /\ sourcesRef' = {}

\* ------------------------------------------------------------- startSession
\* the invocation that runs next: the lowest unused number
NextSession(i) ==
    /\ sessions[i].pc = "none"
    /\ \A j \in SessionIds : j < i => sessions[j].pc # "none"

\* startSession up to its awaits (of resume() when the context is suspended,
\* then of getUserMedia): the click on "Say Namaste", which the WELCOME screen
\* alone renders
startSession(i) ==
    /\ MicrotasksDrained
    /\ rendered.appState = WELCOME
    /\ NextSession(i)
    /\ IF rendered.isSessionActive
       THEN UNCHANGED vars
       ELSE /\ Spend(1)
            /\ isSessionActive' = TRUE
            /\ appState' = DISCOVERY
            /\ audioContextRef' = i
            /\ outputAudioContextRef' = i
            /\ resources' = [resources EXCEPT !["inputCtx"][i] = "held",
                                              !["outputCtx"][i] = "held"]
            /\ sessions' = [sessions EXCEPT ![i].pc = "getUserMedia",
                                            ![i].born = clock]
            /\ last' = Other
            /\ UNCHANGED << experiences, currentExpIndex, currentPlan,
                            isListening, transcription, rendered,
                            scriptProcessorRef, mediaStreamRef,
                            nextStartTimeRef, sessionPromiseRef, sourcesRef,
                            clock, pending, entries, calls, sent, alerts,
                            frames >>

\* getUserMedia resolves: the stream is kept and ai.live.connect is called
getUserMediaResolved(i) ==
    /\ Committed
    /\ sessions[i].pc = "getUserMedia"
    /\ mediaStreamRef' = i
    /\ resources' = [resources EXCEPT !["stream"][i] = "held"]
    /\ sessionPromiseRef' = i
    /\ sessions' = [sessions EXCEPT ![i].pc = "connecting",
                                    ![i].promise = "pending"]
    /\ last' = Other
    /\ UNCHANGED << reactVars, rendered, audioContextRef,
                    outputAudioContextRef, scriptProcessorRef,
                    nextStartTimeRef, sourcesRef, clock, pending, entries,
                    calls, sent, alerts, events, frames >>

\* getUserMedia rejects: the catch block of startSession
getUserMediaRejected(i) ==
    /\ Committed
    /\ sessions[i].pc = "getUserMedia"
    /\ Spend(1)
    /\ isSessionActive' = FALSE
    /\ isListening' = FALSE
    /\ alerts' = alerts + 1
    /\ sessions' = [sessions EXCEPT ![i].pc = "failed"]
    /\ last' = Fatal("catch", i)
    /\ UNCHANGED << appState, experiences, currentExpIndex, currentPlan,
                    transcription, rendered, refVars, clock, resources,
                    pending, entries, calls, sent, frames >>

\* ------------------------------------------------------------- channel
\* callbacks.onopen
onopen(i) ==
    /\ Committed
    /\ sessions[i].pc = "connecting"
    /\ isListening' = TRUE
    /\ LET queued == ThenSend(sessions, sent,
                              AudioFrame(frames + 1, "silence"))
           ss == [queued[1] EXCEPT ![i].pc = "open"]
       IN /\ sent' = queued[2]
          /\ IF audioContextRef = Null
             THEN \* audioContextRef.current! is null: onopen throws here
                  /\ sessions' = ss
                  /\ UNCHANGED << scriptProcessorRef, resources >>
             ELSE /\ sessions' = [ss EXCEPT ![i].procCtx = audioContextRef]
                  /\ scriptProcessorRef' = i
                  /\ resources' = [resources EXCEPT !["processor"][i] = "held"]
    /\ frames' = frames + 1
    /\ last' = Other
    /\ UNCHANGED << appState, experiences, currentExpIndex, currentPlan,
                    isSessionActive, transcription, rendered, audioContextRef,
                    outputAudioContextRef, mediaStreamRef, nextStartTimeRef,
                    sessionPromiseRef, sourcesRef, clock, pending, entries,
                    calls, alerts, events >>

\* the promise of ai.live.connect resolves with the Session: the callbacks
\* queued on it run in the order in which they were queued
connectResolved(i) ==
    /\ Committed
    /\ sessions[i].pc = "open"
    /\ sessions[i].promise = "pending"
    /\ sent' = Flushed(sent, sessions[i].thens)
    /\ sessions' = [sessions EXCEPT ![i].promise = "resolved",
                                    ![i].thens = << >>]
    /\ last' = Other
    /\ UNCHANGED << reactVars, rendered, refVars, clock, resources, pending,
                    entries, calls, alerts, events, frames >>

\* scriptProcessorRef.current.onaudioprocess of the processor made by onopen(p)
onaudioprocess(p) ==
    /\ Committed
    /\ Spend(1)
    /\ resources["processor"][p] = "held"
    /\ resources["inputCtx"][sessions[p].procCtx] = "held"
    /\ LET queued == ThenSend(sessions, sent,
                              AudioFrame(frames + 1, "frame"))
       IN /\ sessions' = queued[1]
          /\ sent' = queued[2]
    /\ frames' = frames + 1
    /\ last' = Other
    /\ UNCHANGED << reactVars, rendered, refVars, clock, resources, pending,
                    entries, calls, alerts >>

\* callbacks.onerror
onerror(i) ==
    /\ Committed
    /\ sessions[i].pc \in {"connecting", "open"}
    /\ Spend(1)
    /\ isListening' = FALSE
    /\ sessions' = [sessions EXCEPT ![i].pc = "errored"]
    /\ last' = Fatal("onerror", i)
    /\ UNCHANGED << appState, experiences, currentExpIndex, currentPlan,
                    isSessionActive, transcription, rendered, refVars, clock,
                    resources, pending, entries, calls, sent, alerts, frames >>

\* callbacks.onclose
onclose(i) ==
    /\ Committed
    /\ sessions[i].pc \in {"connecting", "open", "errored"}
    /\ Spend(1)
    /\ isSessionActive' = FALSE
    /\ isListening' = FALSE
    /\ cleanupAudio
    /\ sessions' = [sessions EXCEPT ![i].pc = "closed"]
    /\ last' = Fatal("onclose", i)
    /\ UNCHANGED << appState, experiences, currentExpIndex, currentPlan,
                    transcription, rendered, nextStartTimeRef,
                    sessionPromiseRef, clock, pending, calls, sent, alerts,
                    frames >>

\* ------------------------------------------------------------- time
Tick ==
    /\ Committed
    /\ Spend(1)
    /\ clock' = clock + 1
    /\ last' = Other
    /\ UNCHANGED << reactVars, rendered, refVars, sessions, resources,
                    pending, entries, calls, sent, alerts, frames >>

\* ------------------------------------------------------------- onmessage: serverContent
\* message.serverContent?.modelTurn?.parts[0]?.inlineData?.data is absent
NoAudio == [none |-> TRUE]

\* An inbound audio chunk, named by what decoding it yields: a buffer of some
\* duration, or nothing for bytes that cannot be decoded
Chunks ==
    { [decodes |-> TRUE, duration |-> d] : d \in 1..MaxDur }
    \cup { [decodes |-> FALSE, duration |-> 0] }

\* message.serverContent: outputTranscription or inputTranscription, the
\* turnComplete marker, the audio of modelTurn and the interrupted marker
Content(transcript, turnComplete, audio, interrupted) ==
    [transcript |-> transcript, turnComplete |-> turnComplete,
     audio |-> audio, interrupted |-> interrupted]

\* The LiveServerMessages that carry serverContent: a transcription delta or
\* a turn marker, or a model turn with audio, an interruption or both
ContentMessages ==
    { Content("output", FALSE, NoAudio, FALSE),
      Content("input", FALSE, NoAudio, FALSE),
      Content("none", TRUE, NoAudio, FALSE) }
    \cup { Content("none", FALSE, c, FALSE) : c \in Chunks }
    \cup { Content("none", FALSE, c, TRUE) : c \in Chunks \cup {NoAudio} }

\* decodeAudioData of services/audioUtils: the AudioBuffer, or a rejection
decodeAudioData(chunk) == [ok |-> chunk.decodes, duration |-> chunk.duration]

\* setTranscription(prev => prev + text), then setTranscription('') on turnComplete
Transcribed(prev, m) ==
    IF m.turnComplete THEN << >>
    ELSE IF m.transcript = "none" THEN prev
    ELSE Append(prev, m.transcript)

\* Math.max(nextStartTimeRef.current, outCtx.currentTime)
ScheduledStart(cursor, now) == Max(cursor, now)

\* a cursor that stays where it is after a chunk is scheduled
CursorNotAdvanced(cursor, duration) == cursor

\* nextStartTimeRef.current += audioBuffer.duration
AdvancedCursor(cursor, duration) == cursor + duration

\* a cursor that survives an interruption
CursorKept(cursor) == cursor

\* a cursor that an interruption moves one tick into the future
CursorPushed(cursor) == cursor + 1

\* nextStartTimeRef.current = 0 of the interrupted branch
InterruptedCursor(cursor) == 0

\* the clock the interrupted branch would read, were it to read one
OutputClock ==
    IF outputAudioContextRef = Null THEN 0
    ELSE CurrentTime(outputAudioContextRef)

\* a handler step ran while the messages of p were suspended: each of them
\* keeps whether a later message, or a later interruption, went first
Overtaken(p, by) ==
    [k \in DOMAIN p |->
        [p[k] EXCEPT !.overtakenBy = IF @ = "interruption" THEN @ ELSE by]]

\* onmessage for a serverContent message, up to await decodeAudioData or, with
\* no audio in the message, to its end
onmessageContent(i, m) ==
    /\ Spend(1)
    /\ transcription' = Transcribed(transcription, m)
    /\ IF m.audio # NoAudio
       THEN IF outputAudioContextRef = Null
            THEN \* outputAudioContextRef.current! is null: the handler throws
                 /\ last' = Other
                 /\ pending' = Overtaken(pending, "message")
                 /\ UNCHANGED << nextStartTimeRef, entries, sourcesRef >>
            ELSE /\ nextStartTimeRef' =
                        ScheduledStart(nextStartTimeRef, OutputClock)
                 /\ pending' = Append(Overtaken(pending, "message"),
                                     [outCtx |-> outputAudioContextRef,
                                      chunk |-> m.audio,
                                      interrupted |-> m.interrupted,
                                      at |-> OutputClock,
                                      session |-> i,
                                      cursorBefore |-> nextStartTimeRef,
                                      sourcesBefore |-> sourcesRef,
                                      overtakenBy |-> "none"])
                 /\ last' = Other
                 /\ UNCHANGED << entries, sourcesRef >>
       ELSE IF m.interrupted
            THEN /\ entries' = StopAll(entries, sourcesRef)
                 /\ sourcesRef' = {}
                 /\ nextStartTimeRef' = InterruptedCursor(nextStartTimeRef)
                 /\ last' = Interrupted(OutputClock)
                 /\ pending' = Overtaken(pending, "interruption")
            ELSE /\ last' = Other
                 /\ pending' = Overtaken(pending, "message")
                 /\ UNCHANGED << nextStartTimeRef, entries, sourcesRef >>
    /\ UNCHANGED << appState, experiences, currentExpIndex, currentPlan,
                    isSessionActive, isListening, rendered, audioContextRef,
                    outputAudioContextRef, scriptProcessorRef, mediaStreamRef,
                    sessionPromiseRef, clock, sessions, resources, calls,
                    sent, alerts, frames >>

\* onmessage after await decodeAudioData: the source is started, the cursor
\* advanced, then the interrupted branch runs
decodeSettled ==
    /\ pending # << >>
    /\ LET f == Head(pending)
           r == decodeAudioData(f.chunk)
           e == [ctx |-> f.outCtx, start |-> nextStartTimeRef,
                 dur |-> r.duration, at |-> f.at, stoppedAt |-> -1,
                 stoppedAfter |-> 0, overtakenBy |-> f.overtakenBy]
           ents == Append(entries, e)
           srcs == sourcesRef \cup {Len(ents)}
           cursor == AdvancedCursor(nextStartTimeRef, r.duration)
       IN IF ~r.ok
          THEN \* the await throws: the rest of the handler is skipped
               /\ last' = Dropped(f)
               /\ pending' = Tail(pending)
               /\ UNCHANGED << nextStartTimeRef, entries, sourcesRef >>
          ELSE IF f.interrupted
          THEN /\ pending' = Overtaken(Tail(pending), "interruption")
               /\ entries' = StopAll(ents, srcs)
               /\ sourcesRef' = {}
               /\ nextStartTimeRef' = InterruptedCursor(cursor)
               /\ last' = Interrupted(f.at)
          ELSE /\ pending' = Tail(pending)
               /\ entries' = ents
               /\ sourcesRef' = srcs
               /\ nextStartTimeRef' = cursor
               /\ last' = Other
    /\ UNCHANGED << reactVars, rendered, audioContextRef,
                    outputAudioContextRef, scriptProcessorRef, mediaStreamRef,
                    sessionPromiseRef, clock, sessions, resources, calls,
                    sent, alerts, events, frames >>

\* when the audio of an entry is over: start(when) with when in the past plays now
PlayEnd(e) == Max(e.start, e.at) + e.dur

\* source.addEventListener('ended', () => sourcesRef.current.delete(source))
sourceEnded(e) ==
    /\ Committed
    /\ e \in sourcesRef
    /\ resources["outputCtx"][entries[e].ctx] = "held"
    /\ CurrentTime(entries[e].ctx) >= PlayEnd(entries[e])
    /\ sourcesRef' = sourcesRef \ {e}
    /\ last' = Other
    /\ UNCHANGED << reactVars, rendered, audioContextRef,
                    outputAudioContextRef, scriptProcessorRef, mediaStreamRef,
                    nextStartTimeRef, sessionPromiseRef, clock, sessions,
                    resources, pending, entries, calls, sent, alerts, events, frames >>

\* ------------------------------------------------------------- onmessage: toolCall
\* the function calls the agent may put in a batch
ToolCalls == { [name |-> n, args |-> a] : n \in ToolNames, a \in
                 ShowArgsSet \cup PlanArgsSet \cup {NoArgs} }

WellFormedCalls == { fc \in ToolCalls : fc.args \in ArgsOf(fc.name) }

\* a reading of an omitted flag as set: the default the code must not have
OrTrue(x) == x # "false"

\* args.flag || false
OrFalse(x) == x = "true"

\* the TravelExperience built by the showExperience branch
newExp(args) ==
    [ destination |-> args.destination,
      narrative |-> args.narrative,
      emotionalHook |-> args.emotionalHook,
      foodCulture |-> args.foodCulture,
      activities |-> args.activities,
      mood |-> args.mood,
      priceLevel |-> args.priceLevel,
      suitability |->
        [ seniorFriendly |-> OrFalse(args.seniorFriendly),
          familyFriendly |-> OrFalse(args.familyFriendly),
          youthOriented |-> OrFalse(args.youthOriented) ],
      visualPrompt |-> args.visualPrompt,
      imageUrl |-> args.destination ]

\* const updated = [...prev, newExp]
Updated(prev, exp) == Append(prev, exp)

\* an index one past the newest item: what the code must not select
LastIndexOffByOne(updated) == Len(updated)

\* setCurrentExpIndex(updated.length - 1)
LastIndex(updated) == Len(updated) - 1

\* setCurrentPlan(fc.args as any)
PlanValue(args) ==
    IF args = NoArgs THEN [v |-> "undefined"] ELSE [v |-> "object", o |-> args]

\* "Displaying " + args.destination + " to user."
Displaying(dest) == [text |-> "Displaying", about |-> dest]

\* "Plan generated and displayed."
PlanGenerated == [text |-> "Plan generated and displayed.", about |-> ""]

\* what the loop did with one call
Logged(fc, outcome, planSet, exp) ==
    [id |-> fc.id, name |-> fc.name, args |-> fc.args, outcome |-> outcome,
     planSet |-> planSet, exp |-> exp]

\* one turn of `for (const fc of message.toolCall.functionCalls)`
Dispatched(d, fc) ==
    IF d.threw
    THEN [d EXCEPT !.calls = Append(@, Logged(fc, "not reached", FALSE, 0))]
    ELSE IF fc.name = "showExperience"
    THEN IF fc.args = NoArgs
         THEN \* args.destination of undefined: a TypeError ends the handler
              [d EXCEPT !.threw = TRUE,
                        !.calls = Append(@, Logged(fc, "threw", FALSE, 0))]
         ELSE LET updated == Updated(d.experiences, newExp(fc.args))
                  q == ThenSend(d.sessions, d.sent,
                         ToolResponse(fc.id, fc.name,
                                      Displaying(fc.args.destination)))
              IN [d EXCEPT !.experiences = updated,
                           !.currentExpIndex = LastIndex(updated),
                           !.appState = DISCOVERY,
                           !.sessions = q[1],
                           !.sent = q[2],
                           !.calls = Append(@, Logged(fc, "shown", FALSE,
                                                      Len(updated)))]
    ELSE IF fc.name = "generatePlan"
    THEN LET q == ThenSend(d.sessions, d.sent,
                           ToolResponse(fc.id, fc.name, PlanGenerated))
         IN [d EXCEPT !.currentPlan = PlanValue(fc.args),
                      !.appState = PLANNING,
                      !.sessions = q[1],
                      !.sent = q[2],
                      !.calls = Append(@, Logged(fc, "planned", TRUE, 0))]
    ELSE [d EXCEPT !.calls = Append(@, Logged(fc, "ignored", FALSE, 0))]

RECURSIVE DispatchedAll(_, _, _)
\* the loop over batch from its k-th call on; ids are given in arrival order
DispatchedAll(d, batch, k) ==
    IF k > Len(batch) THEN d
    ELSE DispatchedAll(
            Dispatched(d, [id |-> Len(d.calls) + 1, name |-> batch[k].name,
                           args |-> batch[k].args]),
            batch, k + 1)

\* onmessage for a message that carries toolCall
onmessageToolCall(i, batch) ==
    /\ Spend(Len(batch))
    /\ LET d == DispatchedAll(
                  [experiences |-> experiences,
                   currentExpIndex |-> currentExpIndex,
                   currentPlan |-> currentPlan, appState |-> appState,
                   sessions |-> sessions, sent |-> sent, calls |-> calls,
                   threw |-> FALSE],
                  batch, 1)
       IN /\ experiences' = d.experiences
          /\ currentExpIndex' = d.currentExpIndex
          /\ currentPlan' = d.currentPlan
          /\ appState' = d.appState
          /\ sessions' = d.sessions
          /\ sent' = d.sent
          /\ calls' = d.calls
          /\ last' = Other
    /\ pending' = Overtaken(pending, "message")
    /\ UNCHANGED << isSessionActive, isListening, transcription, rendered,
                    refVars, clock, resources, entries, alerts, frames >>

\* the channel of invocation i delivers a message: the callbacks run one
\* after the other, once the connection is set up
Delivers(i) ==
    /\ Committed
    /\ sessions[i].pc = "open"
    /\ sessions[i].promise = "resolved"

\* callbacks.onmessage
onmessage(i) ==
    /\ Delivers(i)
    /\ \/ \E m \in ContentMessages : onmessageContent(i, m)
       \/ \E k \in 1..MaxBatch :
            /\ events + k <= MaxEvents
            /\ \E b \in [1..k -> WellFormedCalls] : onmessageToolCall(i, b)

\* ------------------------------------------------------------- behaviours
Next ==
    \/ Render
    \/ onBack
    \/ \E i \in SessionIds : startSession(i)
    \/ \E i \in SessionIds : getUserMediaResolved(i)
    \/ \E i \in SessionIds : getUserMediaRejected(i)
    \/ \E i \in SessionIds : onopen(i)
    \/ \E i \in SessionIds : connectResolved(i)
    \/ \E p \in SessionIds : onaudioprocess(p)
    \/ \E i \in SessionIds : onerror(i)
    \/ \E i \in SessionIds : onclose(i)
    \/ \E i \in SessionIds : onmessage(i)
    \/ decodeSettled
    \/ \E e \in DOMAIN entries : sourceEnded(e)
    \/ Tick

Spec == Init /\ [][Next]_vars

\* ------------------------------------------------------------- what was sent
\* every payload handed to sendRealtimeInput / sendToolResponse: those that
\* went out and those still waiting in a .then of a pending connect promise
SendSlots ==
    { <<0, n>> : n \in DOMAIN sent } \cup
    UNION { { <<i, n>> : n \in DOMAIN sessions[i].thens } : i \in SessionIds }

SlotPayload(s) == IF s[1] = 0 THEN sent[s[2]] ELSE sessions[s[1]].thens[s[2]]

\* the tool responses that answer the logged call c
ResponsesTo(c) ==
    { s \in SendSlots : /\ SlotPayload(s).kind = "toolResponse"
                        /\ SlotPayload(s).id = c.id
                        /\ SlotPayload(s).name = c.name }

\* the responses to c that report the success of its tool
SuccessesTo(c) ==
    { s \in ResponsesTo(c) :
        SlotPayload(s).result.text \in {"Displaying", PlanGenerated.text} }

\* ------------------------------------------------------------- C1
\* C1: every tool call the loop was handed, whatever its name, is answered by
\* exactly one tool response carrying the call's id and name.
C1_OneResponsePerCall ==
    \A k \in DOMAIN calls : Cardinality(ResponsesTo(calls[k])) = 1

\* ------------------------------------------------------------- C2
\* the part of entry e that was audible ends here: at its scheduled end, or at
\* the moment it was stopped when that came first
AudibleEnd(e) ==
    IF e.stoppedAt < 0 THEN e.start + e.dur
    ELSE IF e.stoppedAt < e.start + e.dur THEN e.stoppedAt
    ELSE e.start + e.dur

\* entry e was heard: it was not stopped before its audio began
Audible(e) == e.stoppedAt < 0 \/ e.stoppedAt > e.start

\* C2: of two chunks scheduled on the same output context and heard, the one
\* that arrived first is over before the one that arrived later starts:
\* playback intervals never overlap and follow the order of arrival.
C2_NoOverlapInArrivalOrder ==
    \A a, b \in DOMAIN entries :
        ( /\ a < b
          /\ entries[a].ctx = entries[b].ctx
          /\ Audible(entries[a])
          /\ Audible(entries[b]) )
            => AudibleEnd(entries[a]) <= entries[b].start

\* a chunk arrived while the chunk before it was still playing, and neither
\* was stopped
C2_Witness ==
    \E a, b \in DOMAIN entries :
        /\ a < b
        /\ entries[a].ctx = entries[b].ctx
        /\ entries[a].stoppedAt < 0
        /\ entries[b].stoppedAt < 0
        /\ entries[b].at < entries[a].start + entries[a].dur
        /\ entries[b].start = entries[a].start + entries[a].dur

\* ------------------------------------------------------------- C3
\* C3 as stated: after the interrupted branch the set of active sources is
\* empty and the cursor reads the output clock's current time.
C3_CursorAtClockNow ==
    last.op = "interrupted"
        => /\ sourcesRef = {}
           /\ nextStartTimeRef = last.t

\* C3: after the interrupted branch the set of active sources is empty and
\* the cursor is 0, whatever the output clock reads and however many entries
\* were active.
C3_CursorZero ==
    last.op = "interrupted"
        => /\ sourcesRef = {}
           /\ nextStartTimeRef = 0

\* an interruption stopped an entry with the output clock past zero
C3_Witness ==
    /\ last.op = "interrupted"
    /\ last.t > 0
    /\ \E e \in DOMAIN entries : entries[e].stoppedAt = last.t

\* ------------------------------------------------------------- C4
\* entry e was stopped while it had playback time left
CutShort(e) == e.stoppedAt >= 0 /\ e.stoppedAt < PlayEnd(e)

\* C4: an interruption stops every entry that has playback time left, and the
\* chunk scheduled on that context next after the stop starts at the clock
\* reading of its own enqueue, not at the end of the entry that was cut short.
C4_StartsAtEnqueueTime ==
    /\ last.op = "interrupted"
         => /\ sourcesRef = {}
            /\ \A e \in DOMAIN entries :
                 ( /\ resources["outputCtx"][entries[e].ctx] = "held"
                   /\ CurrentTime(entries[e].ctx) < PlayEnd(entries[e]) )
                     => entries[e].stoppedAt >= 0
    /\ \A n \in DOMAIN entries :
         ( /\ n > 1
           /\ entries[n - 1].ctx = entries[n].ctx
           /\ CutShort(entries[n - 1])
           /\ entries[n - 1].stoppedAfter < n )
             => entries[n].start = entries[n].at

\* a chunk was enqueued after an entry was cut short, before the time at
\* which that entry would have ended
C4_Witness ==
    \E n \in DOMAIN entries :
        /\ n > 1
        /\ entries[n - 1].ctx = entries[n].ctx
        /\ CutShort(entries[n - 1])
        /\ entries[n - 1].stoppedAfter < n
        /\ entries[n].at > 0
        /\ entries[n].at < entries[n - 1].start + entries[n - 1].dur
        /\ entries[n].start = entries[n].at

\* ------------------------------------------------------------- C5
\* the invocations of startSession whose session has not ended
Live == { i \in SessionIds : sessions[i].pc \notin {"none", "failed", "closed"} }

\* C5: at most one session is live at any time, and of each kind of device
\* resource at most one is held: a second startSession creates nothing.
C5_AtMostOneSession ==
    /\ Cardinality(Live) <= 1
    /\ \A k \in ResourceKinds :
         Cardinality({ i \in SessionIds : resources[k][i] = "held" }) <= 1

\* ------------------------------------------------------------- C6
\* C6: once the catch block, onerror or onclose of a session has run, every
\* resource that session acquired has been released, exactly once, no source
\* of its output context is left in the active set and no ref points to it.
C6_FatalFailureReleasesAll ==
    last.op \in {"catch", "onerror", "onclose"}
        => /\ \A k \in ResourceKinds :
                resources[k][last.session] \in {"none", "released"}
           /\ \A e \in sourcesRef : entries[e].ctx # last.session
           /\ last.session \notin { audioContextRef, outputAudioContextRef,
                                    scriptProcessorRef, mediaStreamRef }

\* ------------------------------------------------------------- C7
LacksStayArea(args) ==
    IF args = NoArgs THEN TRUE ELSE args.stayArea = Undefined

\* C7: a generatePlan call whose arguments lack stayArea does not set the
\* plan and gets exactly one response, which does not report success.
C7_PlanNeedsStayArea ==
    \A k \in DOMAIN calls :
        (calls[k].name = "generatePlan" /\ LacksStayArea(calls[k].args))
            => /\ ~calls[k].planSet
               /\ Cardinality(ResponsesTo(calls[k])) = 1
               /\ SuccessesTo(calls[k]) = {}

\* ------------------------------------------------------------- C8
\* C8: a showExperience call that lacks a required field appends nothing to
\* the history and gets exactly one response, which does not report success.
C8_ShowNeedsRequiredFields ==
    \A k \in DOMAIN calls :
        (calls[k].name = "showExperience"
           /\ ~HasAll(calls[k].args, ShowRequired))
            => /\ calls[k].exp = 0
               /\ Cardinality(ResponsesTo(calls[k])) = 1
               /\ SuccessesTo(calls[k]) = {}

\* ------------------------------------------------------------- C9
\* every call handled so far was a showExperience with all required fields
OnlyValidShows ==
    /\ calls # << >>
    /\ \A k \in DOMAIN calls : /\ calls[k].name = "showExperience"
                               /\ HasAll(calls[k].args, ShowRequired)

\* C9: after n valid showExperience calls and nothing else, the history holds
\* n items in arrival order, the newest is the current one and the screen is
\* Discovery.
C9_HistoryInArrivalOrder ==
    OnlyValidShows
        => /\ Len(experiences) = Len(calls)
           /\ \A k \in DOMAIN calls :
                experiences[k].destination = calls[k].args.destination
           /\ currentExpIndex = Len(calls) - 1
           /\ appState = DISCOVERY

\* Ooty, then Munnar
C9_Witness ==
    /\ OnlyValidShows
    /\ Len(calls) = 2
    /\ calls[1].args.destination = "Ooty"
    /\ calls[2].args.destination = "Munnar"
    /\ experiences[1].destination = "Ooty"
    /\ experiences[2].destination = "Munnar"
    /\ currentExpIndex = 1
    /\ appState = DISCOVERY

\* ------------------------------------------------------------- C10
OmitsFlags(args) == \A f \in SuitabilityFlags : args[f] = Undefined

\* a valid showExperience call without any of the three suitability flags,
\* which the loop came to dispatch
FlaglessShow(c) ==
    /\ c.name = "showExperience"
    /\ c.outcome # "not reached"
    /\ HasAll(c.args, ShowRequired)
    /\ OmitsFlags(c.args)

C11_WelcomeAfterFatalFailure ==
    last.op \in {"catch", "onerror", "onclose"}
        => /\ appState = WELCOME
           /\ alerts > 0

\* ------------------------------------------------------------- C12
\* the places of sent that hold an audio frame
AudioSent == { p \in DOMAIN sent : sent[p].kind = "audio" }

\* the payloads waiting on the connect promise of invocation i are in the
\* order in which they were handed to .then
WaitingInOrder(i) ==
    \A p, q \in DOMAIN sessions[i].thens :
        ( /\ p < q
          /\ sessions[i].thens[p].kind = "audio"
          /\ sessions[i].thens[q].kind = "audio" )
            => sessions[i].thens[p].id < sessions[i].thens[q].id

\* C12: no audio frame handed to the session promise is lost or sent twice,
\* nothing is left waiting once the promise has resolved, and on each channel
\* the frames go out in the order in which they were submitted.
C12_QueuedFramesFlushedInOrder ==
    /\ \A n \in 1..frames :
         Cardinality({ s \in SendSlots : /\ SlotPayload(s).kind = "audio"
                                         /\ SlotPayload(s).id = n }) = 1
    /\ \A i \in SessionIds :
         /\ sessions[i].promise = "resolved" => sessions[i].thens = << >>
         /\ WaitingInOrder(i)
    /\ \A p, q \in AudioSent :
         (p < q /\ sent[p].ch = sent[q].ch) => sent[p].id < sent[q].id

\* the silence frame and a captured frame both waited for the promise and
\* went out, and a frame captured after that followed them
C12_Witness ==
    \E p, q, r \in AudioSent :
        /\ p < q
        /\ q < r
        /\ sent[p].ch = sent[q].ch
        /\ sent[q].ch = sent[r].ch
        /\ sent[p].name = "silence"
        /\ sent[p].queued
        /\ sent[q].name = "frame"
        /\ sent[q].queued
        /\ ~sent[r].queued

\* ------------------------------------------------------------- C13
\* C13: when the chunk of a message cannot be decoded, the session that
\* delivered it stays open and the rest of the message is handled: without an
\* interruption signal the cursor and the active set are what they were
\* before the message, with one the active set is empty and the cursor reset.
C13_CorruptChunkDropped ==
    last.op = "dropped"
        => /\ sessions[last.session].pc = "open"
           /\ IF last.interrupted
              THEN /\ sourcesRef = {}
                   /\ nextStartTimeRef = InterruptedCursor(last.t)
              ELSE /\ sourcesRef = last.sources
                   /\ nextStartTimeRef = last.t

C15_PlanningHasPlan ==
    appState = PLANNING => currentPlan.v = "object"

====
